---- MODULE Spec2Model ----
(***************************************************************************)
(* Model of bot.py: the history store (load/save/prune), the freshness     *)
(* policy (topic cooldown, title similarity, topic selection) and the      *)
(* control flow of main().                                                 *)
(*                                                                         *)
(* Time is counted in hours.  An ISO timestamp string is modelled by its   *)
(* wall-clock value and its UTC offset; the instant it denotes is          *)
(* wall - off.  A title is a sequence of one-character strings.            *)
(***************************************************************************)
EXTENDS Integers, Sequences, FiniteSets, TLC

VARIABLES now, history, res,
          pc, file, file0, blog, net, selected_topic, post_title,
          outcome, collided, draws, saves, created, run, nextPid

vars == <<now, history, res, pc, file, file0, blog, net, selected_topic,
          post_title, outcome, collided, draws, saves, created, run, nextPid>>

mainVars == <<pc, file, file0, blog, net, selected_topic, post_title,
              outcome, collided, draws, saves, created, run, nextPid>>

\* ---------------------------------------------------------------- bounds
NumTopics == 3
MaxHist == 3
MaxTitleHist == 2
MaxThreshold == 101
MaxRuns == 2
MaxPosts == 1
MaxFileRecs == 1
Now0 == 2000

\* ------------------------------------------------------- program constants
MAX_HISTORY_DAYS == 30
TOPIC_COOLDOWN_DAYS == 7
TITLE_SIMILARITY_BLOCK_DAYS == 30
TITLE_SIMILARITY_THRESHOLD == 65

TopicList ==
  << "Personal Life and Stories", "Food and Recipes", "Travel",
     "How-To Guides and Tutorials", "Product Reviews", "Money and Finance",
     "Productivity", "Health and Fitness", "Fashion", "Lists and Roundups" >>

\* The topic list, cut to its first NumTopics entries.
ALLOWED_TOPICS == SubSeq(TopicList, 1, NumTopics)

TopicSet == {ALLOWED_TOPICS[i] : i \in 1..Len(ALLOWED_TOPICS)}

\* ------------------------------------------------------------- timestamps
Ts(wall, off) == [kind |-> "iso", wall |-> wall, off |-> off]
BadTs == [kind |-> "bad", wall |-> 0, off |-> 0]
NoTs == [kind |-> "missing", wall |-> 0, off |-> 0]

\* dt.datetime.fromisoformat(p["utc_published"]) returns a value (it raises
\* ValueError on a malformed string, KeyError on a missing key).
Parses(ts) == ts.kind = "iso"

\* fromisoformat(s).replace(tzinfo=pytz.utc): the offset is dropped and the
\* wall-clock value is read as UTC.
AsUtc(ts) == ts.wall

\* The instant an aware datetime denotes (used by aware comparisons).
Instant(ts) == ts.wall - ts.off

\* dt.datetime.now(pytz.utc) - dt.timedelta(days=days)
Cutoff(t, days) == t - days * 24

\* ----------------------------------------------------------------- titles
\* the characters that occur in the modelled titles, in code point order
Alphabet ==
  << " ", "-", ":",
     "A", "B", "D", "E", "F", "G", "H", "L", "M", "P", "R", "S", "T",
     "a", "b", "d", "e", "f", "g", "h", "l", "m", "p", "r", "s", "t" >>

Code(c) == CHOOSE i \in 1..Len(Alphabet) : Alphabet[i] = c

LowerChar(c) ==
  IF Code(c) >= 4 /\ Code(c) <= 16 THEN Alphabet[Code(c) + 13] ELSE c

\* str.lower()
Lower(s) == [i \in 1..Len(s) |-> LowerChar(s[i])]

\* str.split(): the maximal runs of non-whitespace characters
RECURSIVE SplitFrom(_, _, _)
SplitFrom(s, i, cur) ==
  IF i > Len(s)
  THEN IF cur = <<>> THEN <<>> ELSE <<cur>>
  ELSE IF s[i] = " "
       THEN IF cur = <<>>
            THEN SplitFrom(s, i + 1, <<>>)
            ELSE <<cur>> \o SplitFrom(s, i + 1, <<>>)
       ELSE SplitFrom(s, i + 1, Append(cur, s[i]))

Split(s) == SplitFrom(s, 1, <<>>)

\* lexicographic order of two strings by code point
RECURSIVE StrLeq(_, _)
StrLeq(a, b) ==
  IF a = <<>> THEN TRUE
  ELSE IF b = <<>> THEN FALSE
  ELSE IF Code(Head(a)) < Code(Head(b)) THEN TRUE
  ELSE IF Code(Head(a)) > Code(Head(b)) THEN FALSE
  ELSE StrLeq(Tail(a), Tail(b))

RECURSIVE InsertSorted(_, _)
InsertSorted(tok, toks) ==
  IF toks = <<>> THEN <<tok>>
  ELSE IF StrLeq(tok, Head(toks)) THEN <<tok>> \o toks
  ELSE <<Head(toks)>> \o InsertSorted(tok, Tail(toks))

\* sorted(tokens)
RECURSIVE SortTokens(_)
SortTokens(toks) ==
  IF toks = <<>> THEN <<>>
  ELSE InsertSorted(Head(toks), SortTokens(Tail(toks)))

\* " ".join(tokens)
RECURSIVE JoinTokens(_)
JoinTokens(toks) ==
  IF toks = <<>> THEN <<>>
  ELSE IF Len(toks) = 1 THEN Head(toks)
  ELSE Head(toks) \o <<" ">> \o JoinTokens(Tail(toks))

\* length of a longest common subsequence
RECURSIVE LCS(_, _)
LCS(a, b) ==
  IF a = <<>> \/ b = <<>> THEN 0
  ELSE IF Head(a) = Head(b) THEN 1 + LCS(Tail(a), Tail(b))
  ELSE LET x == LCS(Tail(a), b)
           y == LCS(a, Tail(b))
       IN IF x >= y THEN x ELSE y

\* rapidfuzz fuzz.ratio: 100 * (1 - indel_distance / (len1 + len2)), where
\* indel_distance = len1 + len2 - 2 * LCS; 100 for two empty strings.  The
\* integer part is kept: the code only compares the score with an integer.
Ratio(a, b) ==
  IF Len(a) + Len(b) = 0 THEN 100
  ELSE (200 * LCS(a, b)) \div (Len(a) + Len(b))

\* rapidfuzz fuzz.token_sort_ratio(s1, s2)
token_sort_ratio(s1, s2) ==
  Ratio(JoinTokens(SortTokens(Split(s1))), JoinTokens(SortTokens(Split(s2))))

\* ---------------------------------------------------------------- history
\* The history document: haskey says whether it has the key "posts".
Hist(posts) == [haskey |-> TRUE, posts |-> posts]
NoPostsDoc == [haskey |-> FALSE, posts |-> <<>>]

Post(title, topic, ts, pid) ==
  [title |-> title, topic |-> topic, ts |-> ts, pid |-> pid]

\* history.get("posts", [])
PostsOf(h) == IF h.haskey THEN h.posts ELSE <<>>

\* dt.datetime.min.replace(tzinfo=pytz.utc)
DatetimeMin == -1000000

\* prune_history: raised tells whether the list comprehension raised
\* (ValueError or KeyError); the assignment then never happens.
prune_history(h, t) ==
  IF ~h.haskey
  THEN [raised |-> FALSE, h |-> Hist(<<>>)]
  ELSE IF \E i \in 1..Len(h.posts) : ~Parses(h.posts[i].ts)
       THEN [raised |-> TRUE, h |-> h]
       ELSE [raised |-> FALSE,
             h |-> Hist(SelectSeq(h.posts,
                      LAMBDA p : AsUtc(p.ts) >= Cutoff(t, MAX_HISTORY_DAYS)))]

is_topic_on_cooldown(h, topic, cooldown_days, t) ==
  \E i \in 1..Len(PostsOf(h)) :
     LET post == PostsOf(h)[i]
     IN /\ post.topic = topic
        /\ Parses(post.ts)
        /\ AsUtc(post.ts) >= Cutoff(t, cooldown_days)

is_title_too_similar_strict(h, new_title, threshold, block_days, t) ==
  \E i \in 1..Len(PostsOf(h)) :
     LET post == PostsOf(h)[i]
     IN /\ Parses(post.ts)
        /\ AsUtc(post.ts) >= Cutoff(t, block_days)
        /\ token_sort_ratio(Lower(new_title), Lower(post.title)) > threshold

is_title_too_similar(h, new_title, threshold, block_days, t) ==
  \E i \in 1..Len(PostsOf(h)) :
     LET post == PostsOf(h)[i]
     IN /\ Parses(post.ts)
        /\ AsUtc(post.ts) >= Cutoff(t, block_days)
        /\ token_sort_ratio(Lower(new_title), Lower(post.title)) >= threshold

\* the latest parseable use of a topic, datetime.min when there is none
RECURSIVE LastUsedFrom(_, _, _)
LastUsedFrom(posts, topic, acc) ==
  IF posts = <<>> THEN acc
  ELSE LET p == Head(posts)
           a == IF p.topic = topic /\ Parses(p.ts) /\ AsUtc(p.ts) > acc
                THEN AsUtc(p.ts) ELSE acc
       IN LastUsedFrom(Tail(posts), topic, a)

LastUsed(h, topic) == LastUsedFrom(PostsOf(h), topic, DatetimeMin)

\* min(topic_last_used.items(), key=...)[0]: the first topic, in the order
\* of ALLOWED_TOPICS, whose last use is minimal
LeastRecentlyUsed(h) ==
  LET n == Len(ALLOWED_TOPICS)
      i == CHOOSE k \in 1..n :
             /\ \A j \in 1..n :
                  LastUsed(h, ALLOWED_TOPICS[k]) <= LastUsed(h, ALLOWED_TOPICS[j])
             /\ \A j \in 1..(k - 1) :
                  LastUsed(h, ALLOWED_TOPICS[j]) > LastUsed(h, ALLOWED_TOPICS[k])
  IN ALLOWED_TOPICS[i]

select_fresh_topic_last(h, t) ==
  LET available_topics ==
        SelectSeq(ALLOWED_TOPICS,
          LAMBDA tp : ~is_topic_on_cooldown(h, tp, TOPIC_COOLDOWN_DAYS, t))
  IN IF available_topics # <<>>
     THEN available_topics[Len(available_topics)]
     ELSE LeastRecentlyUsed(h)

select_fresh_topic_head(h, t) == ALLOWED_TOPICS[1]

select_fresh_topic(h, t) ==
  LET available_topics ==
        SelectSeq(ALLOWED_TOPICS,
          LAMBDA tp : ~is_topic_on_cooldown(h, tp, TOPIC_COOLDOWN_DAYS, t))
  IN IF available_topics # <<>>
     THEN available_topics[1]
     ELSE LeastRecentlyUsed(h)

\* ------------------------------------------------- inputs of the pure parts
SeqsUpTo(S, n) == UNION {[1..k -> S] : k \in 0..n}

T_empty == <<>>
T_a == <<"a">>
T_ab == <<"a", " ", "b">>
T_ba == <<"b", " ", "a">>
T_AB == <<"A", " ", "B">>
T_a_b == <<"a", "-", "b">>
T_bb == <<"b", "b">>

TitleSet == {T_empty, T_a, T_ab, T_ba, T_AB, T_a_b, T_bb}

TopicTs == {Ts(Now0 - 24, 0), Ts(Now0 - 8 * 24, 0), BadTs}

OffsetTs ==
  { Ts(Now0 - 24, 0),
    Ts(Now0 - 31 * 24, 0),
    Ts(Now0 - 30 * 24 + 4 - 8, 0 - 8),
    Ts(Now0 - 30 * 24 - 4 + 9, 9),
    Ts(Now0 - 30 * 24, 0),
    BadTs, NoTs }

TitleTs == {Ts(Now0 - 24, 0), Ts(Now0 - 10 * 24, 0), BadTs}

TopicHistories ==
  {Hist(s) : s \in SeqsUpTo({Post(T_a, tp, ts, 0) :
                               tp \in TopicSet \cup {"Unknown"}, ts \in TopicTs},
                            MaxHist)}

OffsetHistories ==
  {Hist(s) : s \in SeqsUpTo({Post(T_a, "Unknown", ts, 0) : ts \in OffsetTs}, 2)}

TitleHistories ==
  {Hist(s) : s \in SeqsUpTo({Post(tl, "Unknown", ts, 0) :
                               tl \in TitleSet, ts \in TitleTs},
                            MaxTitleHist)}

CooldownChoices == {TOPIC_COOLDOWN_DAYS, 0}
BlockChoices == {TITLE_SIMILARITY_BLOCK_DAYS, TOPIC_COOLDOWN_DAYS}
Thresholds == {0, 1, TITLE_SIMILARITY_THRESHOLD, 80, 100, MaxThreshold}

NoRes == [op |-> "none", h |-> NoPostsDoc, topic |-> "", title |-> <<>>,
          th |-> 0, days |-> 0, out |-> "", raised |-> FALSE]

\* ------------------------------------------------------- state of a run
NoFile == [exists |-> FALSE, text |-> <<>>]

MainIdle ==
  /\ pc = "idle" /\ file = NoFile /\ file0 = NoFile /\ blog = <<>>
  /\ net = {} /\ selected_topic = "" /\ post_title = <<>>
  /\ outcome = "" /\ collided = FALSE /\ draws = 0 /\ saves = 0
  /\ created = FALSE /\ run = 0 /\ nextPid = 1

\* ------------------------------------- the freshness functions, applied
DoCooldown ==
  /\ \E tp \in TopicSet \cup {"Unknown"}, d \in CooldownChoices :
       res' = [NoRes EXCEPT !.op = "cooldown", !.h = history, !.topic = tp,
                            !.days = d,
                            !.out = is_topic_on_cooldown(history, tp, d, now)]
  /\ UNCHANGED <<now, history, mainVars>>

DoSelect ==
  /\ res' = [NoRes EXCEPT !.op = "select", !.h = history,
                          !.out = select_fresh_topic(history, now)]
  /\ UNCHANGED <<now, history, mainVars>>

DoPrune ==
  /\ LET r == prune_history(history, now)
     IN /\ history' = r.h
        /\ res' = [NoRes EXCEPT !.op = "prune", !.h = history,
                                !.raised = r.raised]
  /\ UNCHANGED <<now, mainVars>>

DoSimilar ==
  /\ res = NoRes
  /\ \E tl \in TitleSet, th \in Thresholds, d \in BlockChoices :
       res' = [NoRes EXCEPT !.op = "similar", !.h = history, !.title = tl,
                            !.th = th, !.days = d,
                            !.out = is_title_too_similar(history, tl, th, d, now)]
  /\ UNCHANGED <<now, history, mainVars>>

InitTopic ==
  /\ now = Now0
  /\ history \in TopicHistories \cup OffsetHistories \cup {NoPostsDoc}
  /\ res = NoRes
  /\ MainIdle

NextTopic == DoCooldown \/ DoSelect \/ DoPrune

SpecTopic == InitTopic /\ [][NextTopic]_vars

InitTitle ==
  /\ now = Now0
  /\ history \in TitleHistories \cup {NoPostsDoc}
  /\ res = NoRes
  /\ MainIdle

NextTitle == DoSimilar

SpecTitle == InitTitle /\ [][NextTitle]_vars

\* ------------------------------------------------------ the history file
\* The text of the file is a sequence of tokens: "{", the key "posts",
\* one token per record, "}".
Tok(kind, rec) == [kind |-> kind, rec |-> rec]
NoPost == Post(<<>>, "", NoTs, 0)

\* json.dump(history, f)
Serialize(h) ==
  <<Tok("open", NoPost)>>
  \o (IF h.haskey
      THEN <<Tok("key", NoPost)>> \o [i \in 1..Len(h.posts) |-> Tok("rec", h.posts[i])]
      ELSE <<>>)
  \o <<Tok("close", NoPost)>>

\* json.load accepts the text
WellFormed(text) ==
  /\ Len(text) >= 2
  /\ text[1].kind = "open"
  /\ text[Len(text)].kind = "close"
  /\ \/ Len(text) = 2
     \/ /\ text[2].kind = "key"
        /\ \A i \in 3..(Len(text) - 1) : text[i].kind = "rec"

\* json.load(f)
ParseDoc(text) ==
  IF Len(text) = 2 THEN NoPostsDoc
  ELSE Hist([i \in 1..(Len(text) - 3) |-> text[i + 2].rec])

load_history(f) ==
  IF f.exists
  THEN IF WellFormed(f.text) THEN ParseDoc(f.text) ELSE Hist(<<>>)
  ELSE Hist(<<>>)

\* ------------------------------------------------------------- the blog
\* "published" of a post as the API returns it; z: written with a final Z
BTs(wall, off, z) == [kind |-> "iso", wall |-> wall, off |-> off, z |-> z]
BadBTs == [kind |-> "bad", wall |-> 0, off |-> 0, z |-> FALSE]

\* tag: the topic named in the "<!-- Topic:" comment of the content, or
\* "none" when the content has no such comment
BlogPost(title, published, tag, pid) ==
  [title |-> title, published |-> published, tag |-> tag, pid |-> pid]

\* fromisoformat(published_str.replace('Z', '+00:00')).isoformat()
PublishedIso(pub) == Ts(pub.wall, pub.off)

\* list_recent_posts when the request succeeds: the live posts
ListPosts(b, t) ==
  SelectSeq(b, LAMBDA q : q.published.kind = "bad"
                          \/ q.published.wall - q.published.off <= t)

\* the loop of update_history_from_blog over recent_posts
RECURSIVE UpdateLoop(_, _, _)
UpdateLoop(h, recent, t) ==
  IF recent = <<>> THEN [raised |-> FALSE, h |-> h]
  ELSE
    LET post == Head(recent)
        topic == IF post.tag = "none" THEN "Unknown" ELSE post.tag
        old == /\ post.published.kind = "iso"
               /\ Instant(PublishedIso(post.published))
                    < Cutoff(t, MAX_HISTORY_DAYS)
        published_utc_str ==
          IF post.published.kind = "iso"
          THEN PublishedIso(post.published)
          ELSE Ts(t, 0)
        post_exists ==
          \E i \in 1..Len(h.posts) :
             /\ h.posts[i].title = post.title
             /\ h.posts[i].ts = published_utc_str
    IN IF old THEN UpdateLoop(h, Tail(recent), t)
       ELSE IF ~h.haskey THEN [raised |-> TRUE, h |-> h]
       ELSE IF post_exists THEN UpdateLoop(h, Tail(recent), t)
       ELSE UpdateLoop(
              Hist(Append(h.posts,
                     Post(post.title, topic, published_utc_str, post.pid))),
              Tail(recent), t)

update_history_from_blog(h, recent, t) ==
  LET r == UpdateLoop(h, recent, t)
  IN IF r.raised THEN r ELSE prune_history(r.h, t)

\* TODAY_10AM: 10:00 of the current day in the blog's time zone (an instant)
TODAY_10AM(t, off) == ((t + off) \div 24) * 24 + 10 - off

\* -------------------------------------------------------------- titles
\* "Generated Blog Post" and f"{topic}: Fallback Post", every word cut to
\* its first letter
T_generic == <<"G", " ", "B", " ", "P">>
TopicInitials == <<"P", "F", "T", "H", "R", "M", "D", "E", "S", "L">>
FallbackTitle(tp) ==
  <<TopicInitials[CHOOSE i \in 1..Len(TopicList) : TopicList[i] = tp]>>
  \o <<":", " ", "F", " ", "P">>

\* titles the text service may put on the first line
GenTitles == {T_ab, T_bb}

\* ------------------------------------------------------ inputs of main
Offsets == {0 - 8, 0, 9}

MainRecords ==
  { Post(T_AB, ALLOWED_TOPICS[1], Ts(Now0 - 24, 0), 0),
    Post(T_bb, ALLOWED_TOPICS[2], Ts(Now0 - 29 * 24 - 20 - 8, 0 - 8), 0),
    Post(T_a, "Unknown", BadTs, 0) }

InitFiles ==
  {NoFile, [exists |-> TRUE, text |-> <<Tok("open", NoPost)>>],
   [exists |-> TRUE, text |-> Serialize(NoPostsDoc)]}
  \cup {[exists |-> TRUE, text |-> Serialize(Hist(s))] :
          s \in SeqsUpTo(MainRecords, MaxFileRecs)}

InitBlogs ==
  { <<>>,
    <<BlogPost(T_a, BTs(Now0 - 48, 0, TRUE), "none", 0)>>,
    <<BlogPost(T_a, BadBTs, ALLOWED_TOPICS[1], 0)>> }

RunGaps == {24, 8 * 24}

\* ------------------------------------------------------------------ main
Ended == pc \in {"done", "crashed", "killed"}

\* get_credentials and the try block around it: token.json is absent
GetCredsMissing ==
  /\ pc = "start"
  /\ pc' = "done" /\ outcome' = "token_missing"
  /\ UNCHANGED <<now, history, res, file, file0, blog, net,
                 selected_topic, post_title, collided, draws, saves, created,
                 run, nextPid>>

GetCredsOk ==
  /\ pc = "start"
  /\ \E expired \in BOOLEAN :
       net' = IF expired THEN net \cup {"refresh"} ELSE net
  /\ pc' = "load"
  /\ UNCHANGED <<now, history, res, file, file0, blog, selected_topic,
                 post_title, outcome, collided, draws, saves, created, run,
                 nextPid>>

\* creds.refresh(Request()) raises
GetCredsRefreshFails ==
  /\ pc = "start"
  /\ net' = net \cup {"refresh"}
  /\ pc' = "done" /\ outcome' = "refresh_failed"
  /\ UNCHANGED <<now, history, res, file, file0, blog, selected_topic,
                 post_title, collided, draws, saves, created, run, nextPid>>

LoadHistory ==
  /\ pc = "load"
  /\ history' = load_history(file)
  /\ pc' = "update"
  /\ UNCHANGED <<now, res, file, file0, blog, net, selected_topic,
                 post_title, outcome, collided, draws, saves, created, run,
                 nextPid>>

\* update_history_from_blog inside main's try block: an exception leaves
\* history as the loop left it
UpdateHistory ==
  /\ pc = "update"
  /\ net' = net \cup {"list"}
  /\ \E recent \in {ListPosts(blog, now), <<>>} :
        history' = update_history_from_blog(history, recent, now).h
  /\ pc' = "prune"
  /\ UNCHANGED <<now, res, file, file0, blog, selected_topic,
                 post_title, outcome, collided, draws, saves, created, run,
                 nextPid>>

\* prune_history(history) in main, outside any try block
AfterPrune(raised) == IF raised THEN "crashed" ELSE "select"

PruneStep ==
  /\ pc = "prune"
  /\ LET r == prune_history(history, now)
     IN /\ history' = r.h
        /\ pc' = AfterPrune(r.raised)
        /\ outcome' = IF r.raised THEN "prune_raised" ELSE outcome
  /\ UNCHANGED <<now, res, file, file0, blog, net, selected_topic,
                 post_title, collided, draws, saves, created, run, nextPid>>

SelectStep ==
  /\ pc = "select"
  /\ selected_topic' = select_fresh_topic(history, now)
  /\ pc' = "generate"
  /\ UNCHANGED <<now, history, res, file, file0, blog, net, post_title,
                 outcome, collided, draws, saves, created, run, nextPid>>

\* GEMINI_API_KEY is unset: get_gemini_client raises RuntimeError, outside
\* any try block
GenerateNoKey ==
  /\ pc = "generate"
  /\ pc' = "crashed" /\ outcome' = "gemini_key_missing"
  /\ UNCHANGED <<now, history, res, file, file0, blog, net,
                 selected_topic, post_title, collided, draws, saves, created,
                 run, nextPid>>

\* generate_blog_post_with_gemini: a title from the first line, the generic
\* title, or the fallback post when the call raises
Generate ==
  /\ pc = "generate"
  /\ net' = net \cup {"gemini"}
  /\ \E tl \in GenTitles \cup {T_generic, FallbackTitle(selected_topic)} :
        post_title' = tl
  /\ draws' = draws + 1
  /\ pc' = "check"
  /\ UNCHANGED <<now, history, res, file, file0, blog, selected_topic,
                 outcome, collided, saves, created, run, nextPid>>

\* if is_title_too_similar(history, post_title): ... return
AfterTitleCheck_proceed(similar) == "testlist"

AfterTitleCheck(similar) == IF similar THEN "done" ELSE "testlist"

CheckTitle ==
  /\ pc = "check"
  /\ LET similar == is_title_too_similar(history, post_title,
                      TITLE_SIMILARITY_THRESHOLD, TITLE_SIMILARITY_BLOCK_DAYS,
                      now)
     IN /\ collided' = similar
        /\ pc' = AfterTitleCheck(similar)
        /\ outcome' = IF pc' = "done" THEN "aborted_similar" ELSE outcome
  /\ UNCHANGED <<now, history, res, file, file0, blog, net,
                 selected_topic, post_title, draws, saves, created, run,
                 nextPid>>

\* the test call of list_recent_posts before publishing
TestList ==
  /\ pc = "testlist"
  /\ net' = net \cup {"list"}
  /\ pc' = "publish"
  /\ UNCHANGED <<now, history, res, file, file0, blog, selected_topic,
                 post_title, outcome, collided, draws, saves, created, run,
                 nextPid>>

\* where main goes from its except block around publishing
AfterPublishError_save == "save_open"

AfterPublishError == "done"

\* create_blogger_post raises
PublishFails ==
  /\ pc = "publish"
  /\ net' = net \cup {"create"}
  /\ pc' = AfterPublishError
  /\ outcome' = IF pc' = "done" THEN "publish_failed" ELSE outcome
  /\ UNCHANGED <<now, history, res, file, file0, blog, selected_topic,
                 post_title, collided, draws, saves, created, run, nextPid>>

\* where main goes once create_blogger_post has returned
AfterCreate(raised) == IF raised THEN "done" ELSE "save_open"

\* create_blogger_post returns; the record is appended and history pruned.
\* At most MaxPosts posts are created in one behaviour.
PublishOk ==
  /\ pc = "publish" /\ nextPid <= MaxPosts
  /\ net' = net \cup {"create"}
  /\ created' = TRUE
  /\ \E tag \in {"none", selected_topic}, immediate \in BOOLEAN,
        off \in Offsets :
       LET inst == IF immediate THEN now ELSE TODAY_10AM(now, off)
       IN blog' = <<BlogPost(post_title, BTs(inst + off, off, FALSE),
                             tag, nextPid)>> \o blog
  /\ LET r == prune_history(
                Hist(Append(history.posts,
                       Post(post_title, selected_topic, Ts(now, 0), nextPid))),
                now)
     IN /\ history' = r.h
        /\ pc' = AfterCreate(r.raised)
        /\ outcome' = IF r.raised THEN "publish_failed" ELSE outcome
  /\ nextPid' = nextPid + 1
  /\ UNCHANGED <<now, res, file, file0, selected_topic, post_title,
                 collided, draws, saves, run>>

\* save_history: open(HISTORY_PATH, "w") truncates the file
SaveOpen ==
  /\ pc = "save_open"
  /\ file' = [exists |-> TRUE, text |-> <<>>]
  /\ saves' = saves + 1
  /\ pc' = "save_write"
  /\ UNCHANGED <<now, history, res, file0, blog, net, selected_topic,
                 post_title, outcome, collided, draws, created, run, nextPid>>

\* json.dump writes the document through the file's buffer: a first part
\* reaches the file when the buffer is flushed ...
SaveWrite ==
  /\ pc = "save_write"
  /\ LET doc == Serialize(history)
     IN file' = [file EXCEPT !.text = SubSeq(doc, 1, Len(doc) \div 2)]
  /\ pc' = "save_close"
  /\ UNCHANGED <<now, history, res, file0, blog, net, selected_topic,
                 post_title, outcome, collided, draws, saves, created, run,
                 nextPid>>

\* ... and the rest when the with block closes the file
SaveClose ==
  /\ pc = "save_close"
  /\ file' = [file EXCEPT !.text = Serialize(history)]
  /\ pc' = "done" /\ outcome' = "published"
  /\ UNCHANGED <<now, history, res, file0, blog, net, selected_topic,
                 post_title, collided, draws, saves, created, run, nextPid>>

\* the process is killed while save_history runs
Interrupt ==
  /\ pc \in {"save_write", "save_close"}
  /\ pc' = "killed" /\ outcome' = "killed"
  /\ UNCHANGED <<now, history, res, file, file0, blog, net,
                 selected_topic, post_title, collided, draws, saves, created,
                 run, nextPid>>

\* the scheduler starts the next run
NextRun ==
  /\ Ended /\ run < MaxRuns
  /\ \E gap \in RunGaps : now' = now + gap
  /\ run' = run + 1
  /\ pc' = "start"
  /\ file0' = file
  /\ history' = NoPostsDoc
  /\ net' = {} /\ selected_topic' = "" /\ post_title' = <<>>
  /\ outcome' = "" /\ collided' = FALSE /\ draws' = 0 /\ saves' = 0
  /\ created' = FALSE
  /\ UNCHANGED <<res, file, blog, nextPid>>

Init ==
  /\ now = Now0
  /\ history = NoPostsDoc
  /\ res = NoRes
  /\ pc = "start"
  /\ file \in InitFiles
  /\ file0 = file
  /\ blog \in InitBlogs
  /\ net = {} /\ selected_topic = "" /\ post_title = <<>>
  /\ outcome = "" /\ collided = FALSE /\ draws = 0 /\ saves = 0
  /\ created = FALSE /\ run = 1 /\ nextPid = 1

\* the steps of one run of main
RunStep ==
  \/ GetCredsMissing \/ GetCredsOk \/ GetCredsRefreshFails
  \/ LoadHistory \/ UpdateHistory \/ PruneStep \/ SelectStep
  \/ GenerateNoKey \/ Generate \/ CheckTitle \/ TestList
  \/ PublishFails \/ PublishOk
  \/ SaveOpen \/ SaveWrite \/ SaveClose \/ Interrupt

\* one run of main, from any of the initial files and blogs
SpecRun == Init /\ [][RunStep]_vars

Next == RunStep \/ NextRun

\* successive runs of main
Spec == Init /\ [][Next]_vars


\* ------------------------------------------------------------------ claims
OnCooldown(h, tp) == is_topic_on_cooldown(h, tp, TOPIC_COOLDOWN_DAYS, now)

SomeTopicFree(h) == \E u \in TopicSet : ~OnCooldown(h, u)

\* C1: whenever select_fresh_topic has been applied to a history in which
\* some topic of ALLOWED_TOPICS is off cooldown, the topic it returned is
\* not one that is on cooldown.
C1_CooldownTopicNotSelected ==
  res.op = "select" =>
    \A tp \in TopicSet :
       (OnCooldown(res.h, tp) /\ SomeTopicFree(res.h)) => res.out # tp

\* select_fresh_topic was applied to a history where the head of the list is
\* on cooldown and another topic is free.
C1_Witness ==
  /\ res.op = "select"
  /\ OnCooldown(res.h, ALLOWED_TOPICS[1])
  /\ SomeTopicFree(res.h)

\* position of a topic in ALLOWED_TOPICS
IndexOf(tp) == CHOOSE i \in 1..Len(ALLOWED_TOPICS) : ALLOWED_TOPICS[i] = tp

\* the k-th entry after position i, wrapping around
After(i, k) == ((i - 1 + k) % Len(ALLOWED_TOPICS)) + 1

\* tp is the one most recently used topic of ALLOWED_TOPICS in h
MostRecent(h, tp) ==
  /\ LastUsed(h, tp) > DatetimeMin
  /\ \A u \in TopicSet \ {tp} : LastUsed(h, u) < LastUsed(h, tp)

\* C3 as stated: the result is the first topic off cooldown when scanning
\* circularly from the entry just after the most recently used topic.
C3_RotationAfterLastUsed ==
  (res.op = "select" /\ SomeTopicFree(res.h)) =>
    \A tp \in TopicSet :
       MostRecent(res.h, tp) =>
         \E k \in 1..Len(ALLOWED_TOPICS) :
            /\ res.out = ALLOWED_TOPICS[After(IndexOf(tp), k)]
            /\ ~OnCooldown(res.h, res.out)
            /\ \A m \in 1..(k - 1) :
                 OnCooldown(res.h, ALLOWED_TOPICS[After(IndexOf(tp), m)])

\* C3 amended: when some topic is off cooldown, the result is the first
\* topic off cooldown when scanning ALLOWED_TOPICS from its head.
C3_FirstFreeFromHead ==
  (res.op = "select" /\ SomeTopicFree(res.h)) =>
    \E k \in 1..Len(ALLOWED_TOPICS) :
       /\ res.out = ALLOWED_TOPICS[k]
       /\ ~OnCooldown(res.h, ALLOWED_TOPICS[k])
       /\ \A m \in 1..(k - 1) : OnCooldown(res.h, ALLOWED_TOPICS[m])

\* select_fresh_topic was applied where two topics are free and the most
\* recently used topic is not the last entry of the list.
C3_Witness ==
  /\ res.op = "select"
  /\ ~OnCooldown(res.h, ALLOWED_TOPICS[1])
  /\ ~OnCooldown(res.h, ALLOWED_TOPICS[Len(ALLOWED_TOPICS)])
  /\ MostRecent(res.h, ALLOWED_TOPICS[1])

\* C4: on a history with a malformed or missing timestamp none of
\* is_topic_on_cooldown, select_fresh_topic and prune_history raises.
C4_MalformedNeverRaises ==
  (res.op \in {"cooldown", "select", "prune"}
     /\ \E i \in 1..Len(PostsOf(res.h)) : ~Parses(PostsOf(res.h)[i].ts))
  => ~res.raised

\* C6: after prune_history, every record whose publication instant is less
\* than MAX_HISTORY_DAYS before now is still in history.
C6_PruneKeepsRecent ==
  (res.op = "prune" /\ ~res.raised) =>
    \A i \in 1..Len(PostsOf(res.h)) :
       LET p == PostsOf(res.h)[i]
       IN (Parses(p.ts) /\ Instant(p.ts) > Cutoff(now, MAX_HISTORY_DAYS))
            => \E j \in 1..Len(PostsOf(history)) : PostsOf(history)[j] = p

\* the candidate equals the title of some entry, case-insensitively
HasEqualTitle(h, title) ==
  \E i \in 1..Len(PostsOf(h)) : Lower(PostsOf(h)[i].title) = Lower(title)

\* the same, for an entry whose timestamp parses and lies within the block
\* window
HasRecentEqualTitle(h, title, days) ==
  \E i \in 1..Len(PostsOf(h)) :
     LET p == PostsOf(h)[i]
     IN /\ Lower(p.title) = Lower(title)
        /\ Parses(p.ts)
        /\ AsUtc(p.ts) >= Cutoff(now, days)

C2_CollisionStillPublishes ==
  (collided /\ Ended) => "create" \in net

\* C2 amended: when the generated title collides, the run stops after its
\* single draw with no request creating a post and the history file
\* untouched.
C2_CollisionAbortsRun ==
  collided =>
    /\ pc = "done" /\ outcome = "aborted_similar"
    /\ draws = 1
    /\ "create" \notin net
    /\ saves = 0 /\ file = file0

\* a run has drawn a title that collides with a recent one
C2_Witness ==
  /\ collided
  /\ pc = "done"
  /\ is_title_too_similar(history, post_title, TITLE_SIMILARITY_THRESHOLD,
                          TITLE_SIMILARITY_BLOCK_DAYS, now)

\* C5: a run that stopped on a missing credential has issued no network
\* call.
C5_MissingCredentialNoNetwork ==
  outcome \in {"token_missing", "gemini_key_missing"} => net = {}

\* C8: after an interrupted save, load_history returns the records of
\* either the previous document or the new one.
C8_InterruptedSaveAtomic ==
  pc = "killed" =>
    \/ PostsOf(load_history(file)) = PostsOf(load_history(file0))
    \/ PostsOf(load_history(file)) = PostsOf(history)

\* C9: the history file is written at most once in a run and only after
\* create_blogger_post has returned; a run that failed to get credentials,
\* rejected its title or failed to publish leaves the file as it was.
C9_FileWrittenOnlyAfterCreate ==
  /\ saves <= 1
  /\ (saves > 0 \/ file # file0) => created
  /\ outcome \in {"token_missing", "refresh_failed", "aborted_similar",
                  "publish_failed"} => file = file0

\* publishing raised in a run whose history holds records taken from the
\* blog that the file does not hold
C9_Witness ==
  /\ outcome = "publish_failed"
  /\ "create" \in net
  /\ Len(PostsOf(history)) > Len(PostsOf(load_history(file)))
  /\ file = file0

\* C10: a post the program published has at most one record in history.
C10_OneRecordPerPost ==
  \A p \in 1..(nextPid - 1) :
     Cardinality({i \in 1..Len(PostsOf(history)) :
                    PostsOf(history)[i].pid = p}) <= 1

====
